---- MODULE Spec2Model ----
(***************************************************************************)
(* A model of the Lox expression pipeline: Scanner (src/src/scanner.rs),   *)
(* Reporter (src/src/reporter.rs), Parser (src/src/parser.rs),             *)
(* Interpreter (src/src/interpreter.rs) and the Lox driver                 *)
(* (src/src/lox.rs).                                                       *)
(*                                                                         *)
(* Characters are strings: an ASCII character is the one-character string, *)
(* a non-ASCII character is named by its code point ("U+00A3").  A Rust    *)
(* String is modelled as the sequence of its characters; its UTF-8 bytes   *)
(* are computed by Bytes, each byte named by the character that            *)
(* char::from(u8) gives for it.  A panic of the Rust code is the value     *)
(* panicked = TRUE of the component's record.                              *)
(***************************************************************************)
EXTENDS Integers, Sequences, FiniteSets, TLC

VARIABLES
    scanner,    \* the Scanner of Lox::new
    lox,        \* the Lox: reporter (the errors of the shared Reporter), tokens
    parser,     \* the Parser of the call in progress
    expr,       \* the Expression in hand: what parse returned, what evaluate is given
    call,       \* the entry point in progress or last returned
    returned,   \* what the call returned, once it has
    stderr,     \* the diagnostics the Interpreter wrote to the error stream
                \* during the call
    pc          \* where the run is

vars == <<scanner, lox, parser, expr, call, returned, stderr, pc>>

----------------------------------------------------------------------------
(* Bounds *)

MaxSrcLen == 3
MaxTokens == 4

----------------------------------------------------------------------------
(* Generic helpers *)

RECURSIVE SeqsUpTo(_, _)
SeqsUpTo(S, n) ==
    IF n = 0 THEN {<<>>}
    ELSE LET shorter == SeqsUpTo(S, n - 1)
         IN  shorter \cup {Append(q, x) : q \in {r \in shorter : Len(r) = n - 1}, x \in S}

RECURSIVE Str(_)
Str(cs) == IF cs = <<>> THEN "" ELSE Head(cs) \o Str(Tail(cs))

RECURSIVE CountOf(_, _)
CountOf(c, cs) ==
    IF cs = <<>> THEN 0
    ELSE (IF Head(cs) = c THEN 1 ELSE 0) + CountOf(c, Tail(cs))

----------------------------------------------------------------------------
(* Characters and UTF-8 *)

NULL_C == "NUL"
NoChar == "NONE"

Digits == {"0", "1", "2", "3", "4", "5", "6", "7", "8", "9"}
Letters == {"a", "b", "c", "d", "e", "f", "g", "h", "i", "j", "k", "l", "m",
            "n", "o", "p", "q", "r", "s", "t", "u", "v", "w", "x", "y", "z"}

DigitVal(c) ==
    CASE c = "0" -> 0 [] c = "1" -> 1 [] c = "2" -> 2 [] c = "3" -> 3
      [] c = "4" -> 4 [] c = "5" -> 5 [] c = "6" -> 6 [] c = "7" -> 7
      [] c = "8" -> 8 [] c = "9" -> 9

\* The UTF-8 encoding of a character, each byte as char::from(byte).
Utf8(c) ==
    CASE c = "U+00A3" -> <<"U+00C2", "U+00A3">>   \* pound sign: C2 A3
      [] c = "U+00B2" -> <<"U+00C2", "U+00B2">>   \* superscript two: C2 B2
      [] c = "U+00C2" -> <<"U+00C3", "U+0082">>   \* A circumflex: C3 82
      [] OTHER -> <<c>>

RECURSIVE Bytes(_)
Bytes(src) == IF src = <<>> THEN <<>> ELSE Utf8(Head(src)) \o Bytes(Tail(src))

\* source.len(): the length in bytes.
SourceLen(src) == Len(Bytes(src))

\* The byte offset at which character i (1-based) of src starts.
RECURSIVE CharOffset(_, _)
CharOffset(src, i) ==
    IF i = 1 THEN 0 ELSE CharOffset(src, i - 1) + Len(Utf8(src[i - 1]))

IsCharBoundary(src, n) ==
    \/ n = SourceLen(src)
    \/ \E i \in 1..Len(src) : CharOffset(src, i) = n

\* &source[a..b]: the characters of the byte range, or a panic when the
\* range is not one of the string (str's Index<Range<usize>>).
SliceOk(src, a, b) ==
    a <= b /\ b <= SourceLen(src) /\ IsCharBoundary(src, a) /\ IsCharBoundary(src, b)

SliceChars(src, a, b) ==
    LET idx == {i \in 1..Len(src) : CharOffset(src, i) >= a /\ CharOffset(src, i) < b}
    IN  [k \in 1..Cardinality(idx) |->
            src[CHOOSE i \in idx : Cardinality({j \in idx : j < i}) = k - 1]]

\* char::is_numeric
is_digit(c) == c \in Digits \cup {"U+00B2"}

\* char::is_alphanumeric() || c == '_'
is_alpha(c) == c \in Letters \cup Digits \cup {"U+00B2", "U+00C2", "U+00C3", "_"}

is_alphanumeric(c) == is_alpha(c) \/ is_digit(c)

----------------------------------------------------------------------------
(* Literal values (Option<Literal>) and tokens *)

LNone == [kind |-> "None", s |-> "", n |-> 0, d |-> 1, b |-> FALSE]
LNull == [kind |-> "Null", s |-> "", n |-> 0, d |-> 1, b |-> FALSE]
LString(str) == [kind |-> "String", s |-> str, n |-> 0, d |-> 1, b |-> FALSE]
LBoolean(v) == [kind |-> "Boolean", s |-> "", n |-> 0, d |-> 1, b |-> v]

Abs(x) == IF x < 0 THEN -x ELSE x

RECURSIVE Gcd(_, _)
Gcd(a, b) == IF b = 0 THEN a ELSE Gcd(b, a % b)

\* A Number is the rational n/d in lowest terms, d > 0; d = 0 is an
\* infinity (n = 1, n = -1) or NaN (n = 0).  f64 rounding is not modelled.
LNumber(num, den) ==
    LET g == Gcd(Abs(num), Abs(den))
        sg == IF den < 0 THEN -1 ELSE 1
    IN  IF g = 0
        THEN [kind |-> "Number", s |-> "", n |-> 0, d |-> 0, b |-> FALSE]
        ELSE [kind |-> "Number", s |-> "", n |-> sg * (num \div g),
              d |-> Abs(den) \div g, b |-> FALSE]

Token(token_type, lexeme, literal, line) ==
    [token_type |-> token_type, lexeme |-> lexeme, literal |-> literal, line |-> line]

KEYWORDS ==
    [text \in {"and", "class", "else", "false", "for", "fun", "if", "nil", "or",
               "print", "return", "super", "this", "true", "var", "while"} |->
        CASE text = "and" -> "And" [] text = "class" -> "Class"
          [] text = "else" -> "Else" [] text = "false" -> "False"
          [] text = "for" -> "For" [] text = "fun" -> "Fun"
          [] text = "if" -> "If" [] text = "nil" -> "Nil"
          [] text = "or" -> "Or" [] text = "print" -> "Print"
          [] text = "return" -> "Return" [] text = "super" -> "Super"
          [] text = "this" -> "This" [] text = "true" -> "True"
          [] text = "var" -> "Var" [] text = "while" -> "While"]

----------------------------------------------------------------------------
(* Reporter *)

Report(errors, line, location, message) ==
    Append(errors, "[line " \o ToString(line) \o "] Error" \o location \o ": " \o message)

ReporterError(errors, token, message) ==
    IF token.token_type = "Eof"
    THEN Report(errors, token.line, " at the end", message)
    ELSE Report(errors, token.line, " at '" \o token.lexeme \o "'", message)

----------------------------------------------------------------------------
(* Scanner.  A scanner state s is the record of the struct's fields, with  *)
(* reporter the errors of the Reporter it holds and panicked the fact that *)
(* the thread panicked.                                                     *)

ScannerNew(src) ==
    [source |-> src, reporter |-> <<>>, tokens |-> <<>>,
     start |-> 0, current |-> 0, line |-> 1, panicked |-> FALSE]

Panic(s) == [s EXCEPT !.panicked = TRUE]

is_at_end(s) == s.current >= SourceLen(s.source)

nth(s, n) == Bytes(s.source)[n + 1]

peek(s) == IF is_at_end(s) THEN NULL_C ELSE nth(s, s.current)

peek_next(s) ==
    IF s.current + 1 >= SourceLen(s.source) THEN NULL_C ELSE nth(s, s.current + 1)

\* The character advance() returns: source.chars().nth(current).
advance_char(s) ==
    IF s.current < Len(s.source) THEN s.source[s.current + 1] ELSE NoChar

advance(s) == [s EXCEPT !.current = @ + 1]

\* A report that reaches the error stream but not the errors of the Reporter.
scanner_report_unrecorded(s, message) == s

\* A report that keeps only the latest error.
scanner_report_overwriting(s, message) ==
    [s EXCEPT !.reporter = Report(<<>>, s.line, "", message)]

scanner_report(s, message) ==
    [s EXCEPT !.reporter = Report(@, s.line, "", message)]

add_token(s, t, literal) ==
    IF SliceOk(s.source, s.start, s.current)
    THEN [s EXCEPT !.tokens =
            Append(@, Token(t, Str(SliceChars(s.source, s.start, s.current)),
                            literal, s.line))]
    ELSE Panic(s)

add_char_token(s, t) == add_token(s, t, LNone)

match_char_hit(s, expected) == ~is_at_end(s) /\ nth(s, s.current) = expected

match_char(s, expected) == IF match_char_hit(s, expected) THEN advance(s) ELSE s

\* while self.peek() != '\n' && !self.is_at_end() { self.advance(); }
RECURSIVE skip_comment(_)
skip_comment(s) ==
    IF peek(s) # "\n" /\ ~is_at_end(s) THEN skip_comment(advance(s)) ELSE s

RECURSIVE skip_alphanumeric(_)
skip_alphanumeric(s) ==
    IF is_alphanumeric(peek(s)) THEN skip_alphanumeric(advance(s)) ELSE s

identifier(s) ==
    LET s1 == skip_alphanumeric(s)
    IN  IF ~SliceOk(s1.source, s1.start, s1.current) THEN Panic(s1)
        ELSE LET text == Str(SliceChars(s1.source, s1.start, s1.current))
                 token_type == IF text \in DOMAIN KEYWORDS
                               THEN KEYWORDS[text] ELSE "Identifier"
             IN  add_token(s1, token_type, LNone)

RECURSIVE skip_digits(_)
skip_digits(s) == IF is_digit(peek(s)) THEN skip_digits(advance(s)) ELSE s

\* f64::from_str on the text number() hands it: digits with at most one
\* '.' between digits.  Any other character is a parse error.
F64Ok(cs) == \A i \in 1..Len(cs) : cs[i] \in Digits \cup {"."}

RECURSIVE DigitsValue(_)
DigitsValue(cs) ==
    IF cs = <<>> THEN 0
    ELSE DigitsValue(SubSeq(cs, 1, Len(cs) - 1)) * 10 + DigitVal(cs[Len(cs)])

RECURSIVE Pow10(_)
Pow10(k) == IF k = 0 THEN 1 ELSE 10 * Pow10(k - 1)

F64FromStr(cs) ==
    LET dots == {i \in 1..Len(cs) : cs[i] = "."}
        ds == SelectSeq(cs, LAMBDA c : c # ".")
        frac == IF dots = {} THEN 0 ELSE Len(cs) - (CHOOSE i \in dots : TRUE)
    IN  LNumber(DigitsValue(ds), Pow10(frac))

number(s) ==
    LET s1 == skip_digits(s)
        s2 == IF peek(s1) = "." /\ is_digit(peek_next(s1)) THEN advance(s1) ELSE s1
        s3 == skip_digits(s2)
    IN  IF ~SliceOk(s3.source, s3.start, s3.current) THEN Panic(s3)
        ELSE LET text == SliceChars(s3.source, s3.start, s3.current)
             IN  IF ~F64Ok(text) THEN Panic(s3)
                 ELSE add_token(s3, "Number", F64FromStr(text))

\* while self.peek() != '"' && !self.is_at_end() { ... }
RECURSIVE string_body(_)
string_body(s) ==
    IF peek(s) # "\"" /\ ~is_at_end(s)
    THEN string_body(advance(IF peek(s) = "\n" THEN [s EXCEPT !.line = @ + 1] ELSE s))
    ELSE s

string(s) ==
    LET s1 == string_body(s)
    IN  IF is_at_end(s1) THEN scanner_report(s1, "Unterminated string.")
        ELSE LET s2 == advance(s1)
             IN  IF ~SliceOk(s2.source, s2.start + 1, s2.current - 1) THEN Panic(s2)
                 ELSE add_token(s2, "String",
                        LString(Str(SliceChars(s2.source, s2.start + 1, s2.current - 1))))

SingleCharTokens ==
    [c \in {"(", ")", "{", "}", ",", ".", "-", "+", ";", "*"} |->
        CASE c = "(" -> "LeftParen" [] c = ")" -> "RightParen"
          [] c = "{" -> "LeftBrace" [] c = "}" -> "RightBrace"
          [] c = "," -> "Comma" [] c = "." -> "Dot"
          [] c = "-" -> "Minus" [] c = "+" -> "Plus"
          [] c = ";" -> "Semicolon" [] c = "*" -> "Star"]

scan_token(s) ==
    LET current == s.current
        char == advance_char(s)
        s1 == advance(s)
    IN  IF char = NoChar
        THEN scanner_report(s1, "Invalid UTF-8 codepoint at: " \o ToString(current))
        ELSE CASE char \in DOMAIN SingleCharTokens ->
                    add_char_token(s1, SingleCharTokens[char])
               [] char = "!" ->
                    add_char_token(match_char(s1, "="),
                        IF match_char_hit(s1, "=") THEN "BangEqual" ELSE "Bang")
               [] char = "=" ->
                    add_char_token(match_char(s1, "="),
                        IF match_char_hit(s1, "=") THEN "EqualEqual" ELSE "Equal")
               [] char = "<" ->
                    add_char_token(match_char(s1, "="),
                        IF match_char_hit(s1, "=") THEN "LessEqual" ELSE "Less")
               [] char = ">" ->
                    add_char_token(match_char(s1, "="),
                        IF match_char_hit(s1, "=") THEN "GreaterEqual" ELSE "Greater")
               [] char = "/" ->
                    IF match_char_hit(s1, "/")
                    THEN skip_comment(match_char(s1, "/"))
                    ELSE add_char_token(s1, "Slash")
               [] char = "\n" -> [s1 EXCEPT !.line = @ + 1]
               [] char \in {" ", "\r", "\t"} -> s1
               [] char = "\"" -> string(s1)
               [] OTHER ->
                    IF is_digit(char) THEN number(s1)
                    ELSE IF is_alpha(char) THEN identifier(s1)
                    ELSE scanner_report(s1, "Unexpected character: " \o char)

\* One iteration of the loop of scan_tokens.
scan_tokens_step(s) == scan_token([s EXCEPT !.start = s.current])

\* The push after the loop of scan_tokens.
scan_tokens_eof(s) == [s EXCEPT !.tokens = Append(@, Token("Eof", "", LNone, s.line))]

----------------------------------------------------------------------------
(* Expressions (ast.rs) *)

Literal(value) == [node |-> "Literal", value |-> value]
Grouping(e) == [node |-> "Grouping", expr |-> e]
Unary(operator, right) == [node |-> "Unary", operator |-> operator, right |-> right]
Binary(left, operator, right) ==
    [node |-> "Binary", left |-> left, operator |-> operator, right |-> right]

----------------------------------------------------------------------------
(* Parser.  A parser state p is the record of the struct's fields, with    *)
(* reporter the errors of the Reporter it owns.  A grammar function gives   *)
(* [p, st, expr]: st is "Ok" (expr is the tree), "Err" (the Err the ?       *)
(* operator hands up) or "Sync" (consume failed inside primary, whose       *)
(* map_err closure is about to run synchronize).                            *)

\* Parser::new: the tokens, and a Reporter of its own.
ParserNew(tokens) ==
    [tokens |-> tokens, current |-> 0, reporter |-> <<>>, panicked |-> FALSE]

Parser_had_error(p) == p.reporter # <<>>

Parser_peek(p) == p.tokens[p.current + 1]

previous(p) == p.tokens[p.current]

Parser_is_at_end(p) == Parser_peek(p).token_type = "Eof"

\* advance() ends in previous(), which indexes tokens[current - 1].
Parser_advance(p) ==
    LET p1 == IF ~Parser_is_at_end(p) THEN [p EXCEPT !.current = @ + 1] ELSE p
    IN  IF p1.current = 0 THEN [p1 EXCEPT !.panicked = TRUE] ELSE p1

check(p, token_type) ==
    IF Parser_is_at_end(p) THEN FALSE ELSE Parser_peek(p).token_type = token_type

matches_hit(p, token_types) == \E tt \in token_types : check(p, tt)

matches(p, token_types) == IF matches_hit(p, token_types) THEN Parser_advance(p) ELSE p

\* Parser::error: the report; the Error it returns carries nothing.
Parser_error(p, token, message) ==
    [p EXCEPT !.reporter = ReporterError(@, token, message)]

Ok(p, e) == [p |-> p, st |-> "Ok", expr |-> e]
Err(p) == [p |-> p, st |-> "Err", expr |-> Literal(LNone)]
Sync(p) == [p |-> p, st |-> "Sync", expr |-> Literal(LNone)]

consume_ok(p, token_type) == check(p, token_type)

\* expr = Expression::Binary(Box::new(expr), operator, Box::new(right)) after
\* `let right = ...?`: the Err of the right operand is handed up.
fold(acc, operator, r) ==
    IF r.st # "Ok" THEN r ELSE Ok(r.p, Binary(acc.expr, operator, r.expr))

\* Ok(Expression::Unary(operator, Box::new(right))) after `let right = self.unary()?`.
unary_of(operator, r) ==
    IF r.st # "Ok" THEN r ELSE Ok(r.p, Unary(operator, r.expr))

\* primary after `let expr = self.expression()?`: consume(RightParen, ...), whose
\* Err runs synchronize and is then unwrapped.
grouping_of(r) ==
    IF r.st # "Ok" THEN r
    ELSE IF consume_ok(r.p, "RightParen")
    THEN Ok(Parser_advance(r.p), Grouping(r.expr))
    ELSE Sync(Parser_error(r.p, Parser_peek(r.p), "Expect ')' after expression."))

RECURSIVE expression(_), unary(_), factor_loop(_), term_loop(_), comparison_loop(_),
          equality_loop(_)

primary(p) ==
    IF matches_hit(p, {"False"}) THEN Ok(matches(p, {"False"}), Literal(LBoolean(FALSE)))
    ELSE IF matches_hit(p, {"True"}) THEN Ok(matches(p, {"True"}), Literal(LBoolean(TRUE)))
    ELSE IF matches_hit(p, {"Nil"}) THEN Ok(matches(p, {"Nil"}), Literal(LString("nil")))
    ELSE IF matches_hit(p, {"Number", "String"})
    THEN Ok(matches(p, {"Number", "String"}),
            Literal(previous(matches(p, {"Number", "String"})).literal))
    ELSE IF matches_hit(p, {"LeftParen"})
    THEN grouping_of(expression(matches(p, {"LeftParen"})))
    ELSE Err(Parser_error(p, Parser_peek(p), "Expect expression."))

unary(p) ==
    IF matches_hit(p, {"Bang", "Minus"})
    THEN unary_of(previous(matches(p, {"Bang", "Minus"})),
                  unary(matches(p, {"Bang", "Minus"})))
    ELSE primary(p)

\* The while loop of factor, expr being acc.
factor_loop(acc) ==
    IF acc.st # "Ok" \/ ~matches_hit(acc.p, {"Slash", "Star"}) THEN acc
    ELSE factor_loop(fold(acc, previous(matches(acc.p, {"Slash", "Star"})),
                          unary(matches(acc.p, {"Slash", "Star"}))))

factor(p) == factor_loop(unary(p))

term_loop(acc) ==
    IF acc.st # "Ok" \/ ~matches_hit(acc.p, {"Minus", "Plus"}) THEN acc
    ELSE term_loop(fold(acc, previous(matches(acc.p, {"Minus", "Plus"})),
                        factor(matches(acc.p, {"Minus", "Plus"}))))

\* A term whose first operand is parsed one level too high.
term_of_unary(p) == term_loop(unary(p))

term(p) == term_loop(factor(p))

ComparisonOps == {"Greater", "GreaterEqual", "Less", "LessEqual"}

comparison_loop(acc) ==
    IF acc.st # "Ok" \/ ~matches_hit(acc.p, ComparisonOps) THEN acc
    ELSE comparison_loop(fold(acc, previous(matches(acc.p, ComparisonOps)),
                              term(matches(acc.p, ComparisonOps))))

comparison(p) == comparison_loop(term(p))

equality_loop(acc) ==
    IF acc.st # "Ok" \/ ~matches_hit(acc.p, {"BangEqual", "EqualEqual"}) THEN acc
    ELSE equality_loop(fold(acc, previous(matches(acc.p, {"BangEqual", "EqualEqual"})),
                            comparison(matches(acc.p, {"BangEqual", "EqualEqual"}))))

equality(p) == equality_loop(comparison(p))

expression(p) == equality(p)

\* The statement keywords the match of synchronize names.
SyncKeywords == {"Class", "Fun", "Var", "For", "If", "While", "Print", "Return"}

----------------------------------------------------------------------------
(* AstPrinter (ast.rs) and the Display of Literal (lexer.rs) *)

RECURSIVE FracDigits(_, _, _)
FracDigits(rem, den, k) ==
    IF rem = 0 \/ k = 0 THEN ""
    ELSE ToString((rem * 10) \div den) \o FracDigits((rem * 10) % den, den, k - 1)

\* {:?} of an f64: at least one fractional digit; the decimals a literal of
\* the source can denote are printed exactly.
FormatF64(v) ==
    IF v.d = 0 THEN (IF v.n = 0 THEN "NaN" ELSE IF v.n > 0 THEN "inf" ELSE "-inf")
    ELSE LET whole == Abs(v.n) \div v.d
             rem == Abs(v.n) % v.d
         IN  (IF v.n < 0 THEN "-" ELSE "") \o ToString(whole) \o "."
               \o (IF rem = 0 THEN "0" ELSE FracDigits(rem, v.d, 17))

LiteralDisplay(l) ==
    CASE l.kind = "String" -> l.s
      [] l.kind = "Number" -> FormatF64(l)
      [] l.kind = "Boolean" -> (IF l.b THEN "true" ELSE "false")
      [] OTHER -> "null"

RECURSIVE print(_)
print(e) ==
    CASE e.node = "Binary" ->
            "(" \o e.operator.lexeme \o " " \o print(e.left) \o " " \o print(e.right) \o ")"
      [] e.node = "Grouping" -> "(group " \o print(e.expr) \o ")"
      [] e.node = "Literal" -> LiteralDisplay(e.value)
      [] e.node = "Unary" -> "(" \o e.operator.lexeme \o " " \o print(e.right) \o ")"

----------------------------------------------------------------------------
(* Interpreter.  evaluate gives [value, stderr]: the Option<ObjectValue>    *)
(* (LNone is None) and the lines it wrote to the error stream, kept as      *)
(* the operator and the two operand values of each.                          *)

TokenTypeDisplay(tt) ==
    CASE tt = "Plus" -> "PLUS" [] tt = "Minus" -> "MINUS" [] tt = "Slash" -> "SLASH"
      [] tt = "Star" -> "STAR" [] tt = "Bang" -> "BANG"
      [] tt = "BangEqual" -> "BANG_EQUAL" [] tt = "EqualEqual" -> "EQUAL_EQUAL"
      [] tt = "Greater" -> "GREATER" [] tt = "GreaterEqual" -> "GREATER_EQUAL"
      [] tt = "Less" -> "LESS" [] tt = "LessEqual" -> "LESS_EQUAL"
      [] tt = "Equal" -> "EQUAL" [] tt = "Comma" -> "COMMA" [] tt = "Dot" -> "DOT"
      [] OTHER -> tt

IsNaN(v) == v.kind = "Number" /\ v.d = 0 /\ v.n = 0

Sign(x) == IF x < 0 THEN -1 ELSE IF x > 0 THEN 1 ELSE 0

NumAdd(a, b) ==
    IF a.d = 0 /\ b.d = 0
    THEN (IF a.n = b.n THEN a ELSE LNumber(0, 0))
    ELSE LNumber(a.n * b.d + b.n * a.d, a.d * b.d)

NumNeg(a) == [a EXCEPT !.n = -a.n]

NumSub(a, b) == NumAdd(a, NumNeg(b))

NumMul(a, b) == LNumber(a.n * b.n, a.d * b.d)

NumDiv(a, b) ==
    IF IsNaN(a) \/ IsNaN(b) THEN LNumber(0, 0)
    ELSE IF b.d = 0 THEN (IF a.d = 0 THEN LNumber(0, 0) ELSE LNumber(0, 1))
    ELSE IF b.n = 0 THEN LNumber(Sign(a.n), 0)
    ELSE LNumber(a.n * b.d * Sign(b.n), a.d * Abs(b.n))

NumLess(a, b) ==
    /\ ~IsNaN(a) /\ ~IsNaN(b)
    /\ IF a.d = 0 /\ b.d = 0 THEN a.n < b.n
       ELSE IF a.d = 0 THEN a.n < 0
       ELSE IF b.d = 0 THEN b.n > 0
       ELSE a.n * b.d < b.n * a.d

\* PartialEq of Literal (derived): same variant and equal payload; f64
\* equality makes NaN differ from itself.
LiteralEq(a, b) == a = b /\ ~IsNaN(a)

NumLessEq(a, b) == NumLess(a, b) \/ (LiteralEq(a, b) /\ a.kind = "Number")

\* A table that lets '+' through for any two operand types.
are_compatible_plus_any(operator, left, right) ==
    CASE operator.token_type = "Plus" -> TRUE
      [] operator.token_type \in {"Minus", "Slash", "Star", "Greater", "GreaterEqual",
                                  "Less", "LessEqual"} ->
            left.kind = "Number" /\ right.kind = "Number"
      [] operator.token_type \in {"BangEqual", "EqualEqual"} -> TRUE
      [] OTHER -> FALSE

\* A table that asks '==' and '!=' for operands of one type.
are_compatible_same_type(operator, left, right) ==
    CASE operator.token_type = "Plus" ->
            \/ left.kind = "Number" /\ right.kind = "Number"
            \/ left.kind = "String" /\ right.kind = "String"
      [] operator.token_type \in {"Minus", "Slash", "Star", "Greater", "GreaterEqual",
                                  "Less", "LessEqual"} ->
            left.kind = "Number" /\ right.kind = "Number"
      [] operator.token_type \in {"BangEqual", "EqualEqual"} -> left.kind = right.kind
      [] OTHER -> FALSE

are_compatible(operator, left, right) ==
    CASE operator.token_type = "Plus" ->
            \/ left.kind = "Number" /\ right.kind = "Number"
            \/ left.kind = "String" /\ right.kind = "String"
      [] operator.token_type \in {"Minus", "Slash", "Star"} ->
            left.kind = "Number" /\ right.kind = "Number"
      [] operator.token_type \in {"Greater", "GreaterEqual", "Less", "LessEqual"} ->
            left.kind = "Number" /\ right.kind = "Number"
      [] operator.token_type \in {"BangEqual", "EqualEqual"} -> TRUE
      [] OTHER -> FALSE

Diagnostic(operator, left, right) ==
    [operator |-> TokenTypeDisplay(operator.token_type), left |-> left, right |-> right]

\* The match of evaluate_binary on (operator, left_value, right_value).
binary_match(tt, l, r) ==
    LET nums == l.kind = "Number" /\ r.kind = "Number"
    IN  CASE tt = "Minus" /\ nums -> NumSub(l, r)
          [] tt = "Slash" /\ nums -> NumDiv(l, r)
          [] tt = "Star" /\ nums -> NumMul(l, r)
          [] tt = "Plus" /\ nums -> NumAdd(l, r)
          [] tt = "Plus" /\ l.kind = "String" /\ r.kind = "String" -> LString(l.s \o r.s)
          [] tt = "Greater" /\ nums -> LBoolean(NumLess(r, l))
          [] tt = "GreaterEqual" /\ nums -> LBoolean(NumLessEq(r, l))
          [] tt = "Less" /\ nums -> LBoolean(NumLess(l, r))
          [] tt = "LessEqual" /\ nums -> LBoolean(NumLessEq(l, r))
          [] tt = "BangEqual" -> LBoolean(~LiteralEq(l, r))
          [] tt = "EqualEqual" -> LBoolean(LiteralEq(l, r))
          [] OTHER -> LNone

Value(v, err) == [value |-> v, stderr |-> err]

RECURSIVE evaluate(_)

\* A unary evaluation in which '!' hands its operand back unchanged.
unary_value_uninverted(operator, right) ==
    IF right.value = LNone THEN right
    ELSE CASE right.value.kind = "Number" /\ operator.token_type = "Minus" ->
                Value(NumNeg(right.value), right.stderr)
           [] right.value.kind = "Boolean" /\ operator.token_type = "Bang" -> right
           [] OTHER -> Value(LNone, right.stderr)

\* evaluate_unary after `let right = self.evaluate(expr)?`.
unary_value(operator, right) ==
    IF right.value = LNone THEN right
    ELSE CASE right.value.kind = "Number" /\ operator.token_type = "Minus" ->
                Value(NumNeg(right.value), right.stderr)
           [] right.value.kind = "Boolean" /\ operator.token_type = "Bang" ->
                Value(LBoolean(~right.value.b), right.stderr)
           [] OTHER -> Value(LNone, right.stderr)

evaluate_unary(operator, e) == unary_value(operator, evaluate(e))

\* evaluate_binary after both operands: the compatibility check, the
\* eprintln! and the match.
binary_value(left_value, operator, right_value) ==
    IF right_value.value = LNone
    THEN Value(LNone, left_value.stderr \o right_value.stderr)
    ELSE IF ~are_compatible(operator, left_value.value, right_value.value)
    THEN Value(LNone,
               Append(left_value.stderr \o right_value.stderr,
                      Diagnostic(operator, left_value.value, right_value.value)))
    ELSE Value(binary_match(operator.token_type, left_value.value, right_value.value),
               left_value.stderr \o right_value.stderr)

\* evaluate_binary after `let left_value = self.evaluate(left)?`.
binary_right(left_value, operator, right) ==
    IF left_value.value = LNone THEN left_value
    ELSE binary_value(left_value, operator, evaluate(right))

evaluate_binary(left, operator, right) == binary_right(evaluate(left), operator, right)

\* Visitor::visit of the Interpreter, which evaluate calls.
evaluate(e) ==
    CASE e.node = "Literal" -> Value(e.value, <<>>)
      [] e.node = "Grouping" -> evaluate(e.expr)
      [] e.node = "Unary" -> evaluate_unary(e.operator, e.right)
      [] e.node = "Binary" -> evaluate_binary(e.left, e.operator, e.right)

----------------------------------------------------------------------------
(* The state machine *)

NoLox == [reporter |-> <<>>, tokens |-> <<>>]
NoReturn == [some |-> FALSE, text |-> "", value |-> LNone]

\* Option<String> of Lox::run and Option<ObjectValue> of Lox::evaluate.
ReturnedText(str) == [some |-> TRUE, text |-> str, value |-> LNone]
ReturnedValue(v) == [some |-> v # LNone, text |-> "", value |-> v]

Idle ==
    /\ lox = NoLox
    /\ parser = ParserNew(<<>>)
    /\ expr = Literal(LNone)
    /\ call = "none"
    /\ returned = NoReturn
    /\ stderr = <<>>

(* Scanner::new and the loop of Scanner::scan_tokens *)

ScanToken ==
    /\ pc = "scanning"
    /\ ~is_at_end(scanner)
    /\ scanner' = scan_tokens_step(scanner)
    /\ pc' = IF scanner'.panicked THEN "panic" ELSE "scanning"
    /\ UNCHANGED <<lox, parser, expr, call, returned, stderr>>

ScanEof ==
    /\ pc = "scanning"
    /\ is_at_end(scanner)
    /\ scanner' = scan_tokens_eof(scanner)
    /\ pc' = "scanned"
    /\ UNCHANGED <<lox, parser, expr, call, returned, stderr>>

(* Lox *)

\* The end of Lox::new: Self { reporter: scanner.reporter, tokens: scanner.tokens }.
LoxNew ==
    /\ pc = "scanned"
    /\ lox' = [reporter |-> scanner.reporter, tokens |-> scanner.tokens]
    /\ pc' = "idle"
    /\ UNCHANGED <<scanner, parser, expr, call, returned, stderr>>

Lox_had_error(l) == l.reporter # <<>>

\* Lox::run and Lox::evaluate up to parser.parse().
LoxRun ==
    /\ pc = "idle"
    /\ call' = "run"
    /\ parser' = ParserNew(lox.tokens)
    /\ returned' = NoReturn
    /\ stderr' = <<>>
    /\ pc' = "parse"
    /\ UNCHANGED <<scanner, lox, expr>>

LoxEvaluate ==
    /\ pc = "idle"
    /\ call' = "evaluate"
    /\ parser' = ParserNew(lox.tokens)
    /\ returned' = NoReturn
    /\ stderr' = <<>>
    /\ pc' = "parse"
    /\ UNCHANGED <<scanner, lox, expr>>

\* Lox::run after parser.parse().
RunReturn ==
    /\ pc = "parsed"
    /\ call = "run"
    /\ returned' = IF Lox_had_error(lox) THEN NoReturn ELSE ReturnedText(print(expr))
    /\ pc' = "idle"
    /\ UNCHANGED <<scanner, lox, parser, expr, call, stderr>>

\* The return of Interpreter::evaluate: the value, and its lines on stderr.
Evaluated(v) ==
    /\ returned' = ReturnedValue(v.value)
    /\ stderr' = stderr \o v.stderr

\* Lox::evaluate after parser.parse().
EvaluateReturn ==
    /\ pc = "parsed"
    /\ call = "evaluate"
    /\ IF ~Lox_had_error(lox)
       THEN Evaluated(evaluate(expr))
       ELSE /\ returned' = NoReturn
            /\ stderr' = stderr
    /\ pc' = "idle"
    /\ UNCHANGED <<scanner, lox, parser, expr, call>>

(* Parser::parse *)

\* parse() up to its return, or up to the call of synchronize.
Parse ==
    /\ pc = "parse"
    /\ LET r == expression(parser)
       IN  /\ parser' = r.p
           /\ expr' = r.expr
           /\ pc' = IF r.st = "Sync" THEN "sync_advance" ELSE "parsed"
    /\ UNCHANGED <<scanner, lox, call, returned, stderr>>

\* synchronize: self.advance().
SyncAdvance ==
    /\ pc = "sync_advance"
    /\ parser' = Parser_advance(parser)
    /\ pc' = IF parser'.panicked THEN "panic" ELSE "sync_cond"
    /\ UNCHANGED <<scanner, lox, expr, call, returned, stderr>>

\* synchronize: while !self.is_at_end().
SyncCond ==
    /\ pc = "sync_cond"
    /\ pc' = IF Parser_is_at_end(parser) THEN "sync_return" ELSE "sync_body"
    /\ UNCHANGED <<scanner, lox, parser, expr, call, returned, stderr>>

\* synchronize: the body of the loop.
sync_body(p) ==
    IF previous(p).token_type = "Semicolon" THEN [p |-> p, pc |-> "sync_return"]
    ELSE IF Parser_peek(p).token_type \in SyncKeywords THEN [p |-> p, pc |-> "sync_cond"]
    ELSE [p |-> Parser_advance(p), pc |-> "sync_cond"]

SyncBody ==
    /\ pc = "sync_body"
    /\ parser' = sync_body(parser).p
    /\ pc' = sync_body(parser).pc
    /\ UNCHANGED <<scanner, lox, expr, call, returned, stderr>>

\* primary: .map_err(|_| self.synchronize()).unwrap() on the Err(()).
Unwrap ==
    /\ pc = "sync_return"
    /\ parser' = [parser EXCEPT !.panicked = TRUE]
    /\ pc' = "panic"
    /\ UNCHANGED <<scanner, lox, expr, call, returned, stderr>>

(* Interpreter::evaluate, called on a tree *)

Evaluate ==
    /\ pc = "evaluate"
    /\ Evaluated(evaluate(expr))
    /\ pc' = "evaluated"
    /\ UNCHANGED <<scanner, lox, parser, expr, call>>

----------------------------------------------------------------------------
(* SpecScan: the scan of one source text *)

ScanAlphabet == {"(", ",", ".", "$", "\n", "\"", "1", "a", "=", ">", "/", "U+00A3"}

TestSources ==
    { <<",", ".", "$", "(", "#">>,
      <<"(", "(", ")">>,
      <<"1", "\n", "2", ".", "0", "\n", "0", "3", "\n", ".", "0">>,
      <<"\"", "h", "\n", "w", "\"">>,
      <<"U+00A3", "U+00A3", " ", "\n", "\"">>,
      <<"!", "*", "+", "-", "/", "=", "<", ">", " ", "<", "=", "\n", "=", "=", " ",
        "/", "/", " ", "s", "h", "o", "u", "l", "d", " ", "b", "e", " ",
        "i", "g", "n", "o", "r", "e", "d", ":", " ", ">", "=">>,
      <<"!", "=", "<", "=", "!">>,
      <<"1", ".", "5", ".", "2">>,
      <<"\"", "a", "\n", "\n", "b", "\"", "1", "\n", "\"", "c">>,
      <<"U+00A3", " ", ">", "=">> }

ScanSources == SeqsUpTo(ScanAlphabet, MaxSrcLen) \cup TestSources

InitScan ==
    /\ scanner \in {ScannerNew(src) : src \in ScanSources}
    /\ pc = "scanning"
    /\ Idle

NextScan == ScanToken \/ ScanEof

SpecScan == InitScan /\ [][NextScan]_vars

----------------------------------------------------------------------------
(* SpecParse: Parser::new and Parser::parse on one token sequence *)

Tok(tt, lexeme) == Token(tt, lexeme, LNone, 1)
NumTok(ch) == Token("Number", ch, LNumber(DigitVal(ch), 1), 1)
StrTok(str) == Token("String", "\"" \o str \o "\"", LString(str), 1)
EofTok == Token("Eof", "", LNone, 1)

BinaryOpTokens ==
    { Tok("BangEqual", "!="), Tok("EqualEqual", "=="), Tok("Greater", ">"),
      Tok("GreaterEqual", ">="), Tok("Less", "<"), Tok("LessEqual", "<="),
      Tok("Minus", "-"), Tok("Plus", "+"), Tok("Slash", "/"), Tok("Star", "*") }

ParseAlphabet ==
    { NumTok("1"), Tok("LeftParen", "("), Tok("RightParen", ")"), Tok("Minus", "-"),
      Tok("Star", "*"), Tok("Less", "<"), Tok("EqualEqual", "=="), Tok("Bang", "!"),
      Tok("Semicolon", ";"), Tok("Print", "print") }

\* a op b op c for every two binary operators, and longer sequences.
TestTokens ==
    { <<NumTok("1"), o1, NumTok("2"), o2, NumTok("3")>> :
        o1 \in BinaryOpTokens, o2 \in BinaryOpTokens }
    \cup
    { <<NumTok("2"), Tok("Plus", "+"), NumTok("3")>>,
      <<Tok("LeftParen", "("), NumTok("2"), Tok("Slash", "/"), NumTok("3"),
        Tok("RightParen", ")"), Tok("Plus", "+"), Tok("LeftParen", "("), NumTok("2"),
        Tok("Star", "*"), NumTok("3"), Tok("RightParen", ")")>>,
      <<NumTok("1"), Tok("EqualEqual", "=="), NumTok("2"), Tok("Less", "<"),
        NumTok("3"), Tok("Minus", "-"), NumTok("4"), Tok("Star", "*"),
        Tok("Bang", "!"), Tok("True", "true")>>,
      <<Tok("LeftParen", "("), StrTok("a"), Tok("Nil", "nil"), Tok("Class", "class"),
        Tok("False", "false")>> }

ParseInputs ==
    {Append(ts, EofTok) : ts \in SeqsUpTo(ParseAlphabet, MaxTokens) \cup TestTokens}

InitParse ==
    /\ scanner = ScannerNew(<<>>)
    /\ lox = NoLox
    /\ parser \in {ParserNew(ts) : ts \in ParseInputs}
    /\ expr = Literal(LNone)
    /\ call = "parse"
    /\ returned = NoReturn
    /\ stderr = <<>>
    /\ pc = "parse"

NextParse == Parse \/ SyncAdvance \/ SyncCond \/ SyncBody \/ Unwrap

SpecParse == InitParse /\ [][NextParse]_vars

----------------------------------------------------------------------------
(* SpecLox: Lox::new on one source text, then Lox::run and Lox::evaluate *)

LoxAlphabet == {"1", "+", "*", "-", "(", ")", "!", "=", "<", "\"", "$"}

LoxTestSources ==
    { <<"2", "+", "3">>,
      <<"(", "2", "/", "3", ")", "+", "(", "2", "*", "3", ")">>,
      <<"\"", "h", "\"", " ", "+", " ", "\"", " ", "w", "\"">>,
      <<"!", "t", "r", "u", "e">>,
      <<"!", "!", "t", "r", "u", "e">>,
      <<"-", "-", "2">>,
      <<"n", "i", "l">>,
      <<"n", "i", "l", "=", "=", "\"", "n", "i", "l", "\"">>,
      <<"1", "-", "2", "-", "3">>,
      <<"1", " ", "2">>,
      <<"1", " ", ")">>,
      <<"(", "1", " ", "i", "f", " ", "2">>,
      <<"(", "1", " ", ";", " ", "2">>,
      <<"1", "+", "\"", "a", "\"">>,
      <<"-", "\"", "a", "\"">>,
      <<"!", "1">>,
      <<"1", ".", "5", "*", "2">>,
      <<"$", "(", "1">> }

LoxSources == SeqsUpTo(LoxAlphabet, MaxSrcLen) \cup LoxTestSources

InitLox ==
    /\ scanner \in {ScannerNew(src) : src \in LoxSources}
    /\ pc = "scanning"
    /\ Idle

NextLox ==
    \/ ScanToken \/ ScanEof \/ LoxNew
    \/ LoxRun \/ LoxEvaluate
    \/ Parse \/ SyncAdvance \/ SyncCond \/ SyncBody \/ Unwrap
    \/ RunReturn \/ EvaluateReturn

SpecLox == InitLox /\ [][NextLox]_vars

----------------------------------------------------------------------------
(* SpecEval: Interpreter::evaluate on one expression tree *)

EvalValues ==
    { LNumber(0, 1), LNumber(1, 1), LNumber(2, 1), LNumber(1, 2),
      LString(""), LString("a"), LString("nil"),
      LBoolean(TRUE), LBoolean(FALSE), LNull }

UnaryOpTokens == {Tok("Bang", "!"), Tok("Minus", "-")}

EvalLeaves == {Literal(v) : v \in EvalValues \cup {LNone}}

\* Trees that evaluate to NaN, to an infinity, and to a finite quotient.
QuotientTrees ==
    { Binary(Literal(LNumber(a, 1)), Tok("Slash", "/"), Literal(LNumber(b, 1))) :
        a \in {0, 1}, b \in {0, 2} }

EvalExprs ==
    EvalLeaves
    \cup {Grouping(e) : e \in EvalLeaves}
    \cup {Unary(o, e) : o \in UnaryOpTokens, e \in EvalLeaves}
    \cup {Unary(o1, Unary(o2, e)) : o1 \in UnaryOpTokens, o2 \in UnaryOpTokens,
                                    e \in EvalLeaves}
    \cup {Binary(l, o, r) : l \in EvalLeaves, o \in BinaryOpTokens, r \in EvalLeaves}
    \cup {Binary(l, o, r) : l \in QuotientTrees,
                            o \in BinaryOpTokens \cup {Tok("Comma", ",")},
                            r \in QuotientTrees \cup {Literal(LString("a"))}}
    \cup {Binary(Unary(o1, l), o, Grouping(r)) :
            o1 \in UnaryOpTokens, l \in {Literal(LNumber(1, 1)), Literal(LString("a"))},
            o \in {Tok("Plus", "+"), Tok("Less", "<"), Tok("EqualEqual", "==")},
            r \in {Literal(LNumber(2, 1)), Literal(LBoolean(TRUE)),
                   Binary(Literal(LNumber(1, 1)), Tok("Plus", "+"), Literal(LString("a")))}}

InitEval ==
    /\ scanner = ScannerNew(<<>>)
    /\ lox = NoLox
    /\ parser = ParserNew(<<>>)
    /\ expr \in EvalExprs
    /\ call = "interpreter"
    /\ returned = NoReturn
    /\ stderr = <<>>
    /\ pc = "evaluate"

NextEval == Evaluate

SpecEval == InitEval /\ [][NextEval]_vars

----------------------------------------------------------------------------
(* Claims about the Scanner, checked under SpecScan *)

IsAscii(src) == \A i \in 1..Len(src) : Len(Utf8(src[i])) = 1

\* C1: for every source text, when scan_tokens returns, the token sequence
\* holds exactly one Eof token, it is the last one, its lexeme is empty and
\* its line is 1 plus the number of newline characters of the source.
C1_EofLastAtFinalLine ==
    pc = "scanned" =>
        LET toks == scanner.tokens
        IN  /\ Len(toks) >= 1
            /\ toks[Len(toks)] =
                 Token("Eof", "", LNone, 1 + CountOf("\n", scanner.source))
            /\ \A i \in 1..(Len(toks) - 1) : toks[i].token_type # "Eof"

\* C2: scan_tokens never aborts: no scan step panics, whatever the source.
C2_ScanNeverAborts == ~scanner.panicked /\ pc # "panic"

\* The characters scan_token has no rule for, as the claim lists them.
UnexpectedAscii ==
    {"$", "#", "@", "%", "^", "&", "~", "`", "?", ":", "|", "[", "]", "'"}

C3_Source == <<",", ".", "$", "(", "#">>

C3_TokenTypes(toks) == [i \in 1..Len(toks) |-> toks[i].token_type]

\* C3: on an ASCII source, a scan step at an unexpected character appends
\* exactly the error "[line N] Error: Unexpected character: <char>", emits
\* no token and moves the cursor past that one character, so that the scan
\* goes on with the next character; scanning ",.$(#" ends with the two
\* errors for '$' and '#' and the tokens COMMA, DOT, LEFT_PAREN, EOF.
C3_UnexpectedCharacter ==
    /\ [][ ( /\ pc = "scanning"
             /\ IsAscii(scanner.source)
             /\ scanner.current < Len(scanner.source)
             /\ scanner.source[scanner.current + 1] \in UnexpectedAscii )
           => ( /\ scanner'.reporter =
                     Append(scanner.reporter,
                            "[line " \o ToString(scanner.line)
                              \o "] Error: Unexpected character: "
                              \o scanner.source[scanner.current + 1])
                /\ scanner'.tokens = scanner.tokens
                /\ scanner'.current = scanner.current + 1
                /\ scanner'.line = scanner.line
                /\ pc' = "scanning" ) ]_vars
    /\ [](pc = "scanned" /\ scanner.source = C3_Source =>
            /\ scanner.reporter = << "[line 1] Error: Unexpected character: $",
                                     "[line 1] Error: Unexpected character: #" >>
            /\ C3_TokenTypes(scanner.tokens) = <<"Comma", "Dot", "LeftParen", "Eof">>)

C3_Witness ==
    /\ pc = "scanned"
    /\ scanner.source = C3_Source
    /\ Len(scanner.reporter) = 2
    /\ Len(scanner.tokens) = 4


----------------------------------------------------------------------------
(* Claims about the Parser, checked under SpecParse *)

\* C4: Parser::parse never fails its caller: it does not panic, and when a
\* syntax error was reported ("Expect ')' after expression." included) it
\* returns, with the placeholder Literal(None) as its result and had_error
\* true.
C4_ParseNeverFails ==
    /\ pc # "panic"
    /\ ~parser.panicked
    /\ (pc = "parsed" /\ Parser_had_error(parser) => expr = Literal(LNone))

\* C5: in the loop of synchronize, when the token before the cursor is not
\* ';' and the next token is one of class/fun/var/for/if/while/print/return,
\* synchronize returns, the cursor left on that keyword.
C5_SynchronizeStopsAtKeyword ==
    [][ ( /\ pc = "sync_body"
          /\ previous(parser).token_type # "Semicolon"
          /\ Parser_peek(parser).token_type \in SyncKeywords )
        => (pc' = "sync_return" /\ parser' = parser) ]_vars

(* The reference parser of the grammar: split the tokens at the rightmost   *)
(* operator of the loosest level that stands in binary position outside any *)
(* parentheses; with no such operator, a leading '!' or '-' is a prefix     *)
(* operator, a matching outer pair of parentheses a grouping, and a single  *)
(* literal token a literal.                                                  *)

RefLevels == << {"BangEqual", "EqualEqual"},
                {"Greater", "GreaterEqual", "Less", "LessEqual"},
                {"Minus", "Plus"},
                {"Slash", "Star"} >>

RefOperandEnd == {"Number", "String", "True", "False", "RightParen"}

RECURSIVE RefDepth(_, _)
RefDepth(ts, i) ==
    IF i = 0 THEN 0
    ELSE RefDepth(ts, i - 1)
           + (IF ts[i].token_type = "LeftParen" THEN 1
              ELSE IF ts[i].token_type = "RightParen" THEN -1 ELSE 0)

\* The positions of the operators of level k in binary position at depth 0.
RefBinaryAt(ts, k) ==
    {i \in 2..Len(ts) : /\ ts[i].token_type \in RefLevels[k]
                        /\ ts[i - 1].token_type \in RefOperandEnd
                        /\ RefDepth(ts, i - 1) = 0
                        /\ \A j \in 1..(i - 1) : RefDepth(ts, j) >= 0}

RefMax(S) == CHOOSE i \in S : \A j \in S : j <= i

RefInvalid == [ok |-> FALSE, expr |-> Literal(LNone)]
RefOk(e) == [ok |-> TRUE, expr |-> e]

RefBinary(l, operator, r) ==
    IF l.ok /\ r.ok THEN RefOk(Binary(l.expr, operator, r.expr)) ELSE RefInvalid
RefUnary(operator, r) == IF r.ok THEN RefOk(Unary(operator, r.expr)) ELSE RefInvalid
RefGrouping(r) == IF r.ok THEN RefOk(Grouping(r.expr)) ELSE RefInvalid

RefLiteral(tok) ==
    CASE tok.token_type \in {"Number", "String"} -> RefOk(Literal(tok.literal))
      [] tok.token_type = "True" -> RefOk(Literal(LBoolean(TRUE)))
      [] tok.token_type = "False" -> RefOk(Literal(LBoolean(FALSE)))
      [] OTHER -> RefInvalid

RECURSIVE RefParse(_)
RefSplit(ts, i) ==
    RefBinary(RefParse(SubSeq(ts, 1, i - 1)), ts[i], RefParse(SubSeq(ts, i + 1, Len(ts))))

RefParse(ts) ==
    IF ts = <<>> THEN RefInvalid
    ELSE IF RefBinaryAt(ts, 1) # {} THEN RefSplit(ts, RefMax(RefBinaryAt(ts, 1)))
    ELSE IF RefBinaryAt(ts, 2) # {} THEN RefSplit(ts, RefMax(RefBinaryAt(ts, 2)))
    ELSE IF RefBinaryAt(ts, 3) # {} THEN RefSplit(ts, RefMax(RefBinaryAt(ts, 3)))
    ELSE IF RefBinaryAt(ts, 4) # {} THEN RefSplit(ts, RefMax(RefBinaryAt(ts, 4)))
    ELSE IF ts[1].token_type \in {"Bang", "Minus"}
    THEN RefUnary(ts[1], RefParse(Tail(ts)))
    ELSE IF ts[1].token_type = "LeftParen" /\ ts[Len(ts)].token_type = "RightParen"
    THEN RefGrouping(RefParse(SubSeq(ts, 2, Len(ts) - 1)))
    ELSE IF Len(ts) = 1 THEN RefLiteral(ts[1])
    ELSE RefInvalid

\* The tokens before the Eof token.
BeforeEof(ts) == SubSeq(ts, 1, Len(ts) - 1)

C8_Nested ==
    <<Tok("LeftParen", "("), NumTok("2"), Tok("Slash", "/"), NumTok("3"),
      Tok("RightParen", ")"), Tok("Plus", "+"), Tok("LeftParen", "("), NumTok("2"),
      Tok("Star", "*"), NumTok("3"), Tok("RightParen", ")"), EofTok>>

C8_Sum == <<NumTok("2"), Tok("Plus", "+"), NumTok("3"), EofTok>>

C8_Chain == <<NumTok("1"), Tok("Minus", "-"), NumTok("2"), Tok("Minus", "-"),
              NumTok("3"), EofTok>>

C8_Ref(p) == RefParse(BeforeEof(p.tokens))

\* C8: when parse returns, a token sequence that is an expression of the
\* grammar has been parsed without error into the tree of the reference
\* parser (equality loosest, then comparison, term, factor, prefix unary;
\* binary levels left-associative; parentheses a Grouping), and a parse that
\* reported no error and consumed every token returned the reference tree;
\* the tree of "(2/3)+(2*3)" evaluates to 20/3 and that of "2+3" to 5.
C8_PrecedenceGrammar ==
    pc = "parsed" /\ (\A i \in 1..Len(parser.tokens) : parser.tokens[i].token_type # "Nil")
    => /\ C8_Ref(parser).ok =>
            /\ ~Parser_had_error(parser)
            /\ Parser_is_at_end(parser)
            /\ expr = C8_Ref(parser).expr
       /\ (~Parser_had_error(parser) /\ Parser_is_at_end(parser)) =>
            /\ C8_Ref(parser).ok
            /\ expr = C8_Ref(parser).expr
       /\ parser.tokens = C8_Nested => evaluate(expr) = Value(LNumber(20, 3), <<>>)
       /\ parser.tokens = C8_Sum => evaluate(expr) = Value(LNumber(5, 1), <<>>)
       /\ parser.tokens = C8_Chain =>
            expr = Binary(Binary(Literal(LNumber(1, 1)), Tok("Minus", "-"),
                                 Literal(LNumber(2, 1))),
                          Tok("Minus", "-"), Literal(LNumber(3, 1)))

C8_Witness ==
    /\ pc = "parsed"
    /\ parser.tokens = C8_Chain
    /\ expr.node = "Binary"
    /\ expr.left.node = "Binary"
    /\ parser.current = 5

----------------------------------------------------------------------------
(* Claims about Lox, checked under SpecLox *)

\* C6: after parsing, Lox::had_error is true exactly when the scanner
\* recorded a lexical error or the parser recorded a syntax error.
C6_HadErrorIsUnion ==
    pc = "parsed" =>
        (Lox_had_error(lox) <=> (scanner.reporter # <<>> \/ Parser_had_error(parser)))

\* C7: when Lox::run or Lox::evaluate has returned, it returned None if a
\* lexical or syntax error was recorded, and otherwise the rendering of the
\* tree (run) or the Interpreter's result (evaluate); and the call returns.
C7_ErrorsSuppressOutput ==
    /\ pc # "panic"
    /\ (pc = "idle" /\ call \in {"run", "evaluate"}) =>
          IF scanner.reporter # <<>> \/ Parser_had_error(parser)
          THEN returned = NoReturn
          ELSE returned = (IF call = "run" THEN ReturnedText(print(expr))
                           ELSE ReturnedValue(evaluate(expr).value))

----------------------------------------------------------------------------
(* Claims about the Interpreter, checked under SpecEval *)

C9_Arithmetic == {"Minus", "Slash", "Star"}
C9_Ordering == {"Greater", "GreaterEqual", "Less", "LessEqual"}

\* The operand values of a Binary expression whose operands both evaluate
\* to a value.
HasOperands(e) ==
    /\ e.node = "Binary"
    /\ evaluate(e.left).value # LNone
    /\ evaluate(e.right).value # LNone

OperandErr(e) == evaluate(e.left).stderr \o evaluate(e.right).stderr

\* C9: evaluating a Binary expression with operator '+', '-', '/', '*',
\* '>', '>=', '<' or '<=' on two operand values gives a Number for
\* (Number, Number) under '+', '-', '/', '*', the concatenation for
\* (String, String) under '+', a Boolean for (Number, Number) under the
\* orderings, and for every other pair of operand types no value and one
\* diagnostic with the operator and both operand values.
C9_BinaryTable ==
    (pc = "evaluated" /\ HasOperands(expr)
        /\ expr.operator.token_type \in {"Plus"} \cup C9_Arithmetic \cup C9_Ordering)
    => LET tt == expr.operator.token_type
           l == evaluate(expr.left).value
           r == evaluate(expr.right).value
           nums == l.kind = "Number" /\ r.kind = "Number"
           strs == l.kind = "String" /\ r.kind = "String"
       IN  IF nums /\ tt \in {"Plus"} \cup C9_Arithmetic
           THEN returned.value.kind = "Number" /\ stderr = OperandErr(expr)
           ELSE IF strs /\ tt = "Plus"
           THEN returned.value = LString(l.s \o r.s) /\ stderr = OperandErr(expr)
           ELSE IF nums /\ tt \in C9_Ordering
           THEN returned.value.kind = "Boolean" /\ stderr = OperandErr(expr)
           ELSE /\ returned.value = LNone
                /\ ~returned.some
                /\ stderr = Append(OperandErr(expr),
                                   [operator |-> TokenTypeDisplay(tt), left |-> l, right |-> r])

C9_Witness ==
    /\ pc = "evaluated"
    /\ expr = Binary(Literal(LNumber(1, 1)), Tok("Plus", "+"), Literal(LString("a")))
    /\ returned = NoReturn
    /\ stderr = << [operator |-> "PLUS", left |-> LNumber(1, 1), right |-> LString("a")] >>

C10_Other(operator) ==
    IF operator.token_type = "EqualEqual" THEN Tok("BangEqual", "!=")
    ELSE Tok("EqualEqual", "==")

\* C10: evaluating '==' or '!=' on two operand values gives a Boolean and
\* writes no diagnostic; on values of different types '==' gives false and
\* '!=' true; and '!=' gives the negation of what '==' gives on the same
\* operands.
C10_EqualityTotal ==
    (pc = "evaluated" /\ HasOperands(expr)
        /\ expr.operator.token_type \in {"EqualEqual", "BangEqual"})
    => LET l == evaluate(expr.left).value
           r == evaluate(expr.right).value
           other == evaluate(Binary(expr.left, C10_Other(expr.operator), expr.right))
       IN  /\ returned.some
           /\ returned.value.kind = "Boolean"
           /\ stderr = OperandErr(expr)
           /\ l.kind # r.kind =>
                returned.value.b = (expr.operator.token_type = "BangEqual")
           /\ other.value.kind = "Boolean"
           /\ other.value.b = ~returned.value.b

C10_Witness ==
    /\ pc = "evaluated"
    /\ expr = Binary(Literal(LNumber(1, 1)), Tok("EqualEqual", "=="), Literal(LString("a")))
    /\ returned = ReturnedValue(LBoolean(FALSE))
    /\ stderr = <<>>

----------------------------------------------------------------------------
(* Claims about nil and about type errors *)

C11_NilSource == <<"n", "i", "l">>
C11_NilEqualsStringSource == <<"n", "i", "l", "=", "=", "\"", "n", "i", "l", "\"">>

\* C11: Lox::evaluate on the source "nil" returns no String, Number or
\* Boolean value, and on the source nil=="nil" it does not return true.
C11_NilIsDistinguished ==
    (pc = "idle" /\ call = "evaluate") =>
        /\ scanner.source = C11_NilSource =>
             returned.value.kind \notin {"String", "Number", "Boolean"}
        /\ scanner.source = C11_NilEqualsStringSource =>
             returned # ReturnedValue(LBoolean(TRUE))

\* A Unary expression whose operand has a value of a type its operator
\* does not take.
C12_UnaryMismatch(e) ==
    /\ e.node = "Unary"
    /\ evaluate(e.right).value # LNone
    /\ ~(e.operator.token_type = "Minus" /\ evaluate(e.right).value.kind = "Number")
    /\ ~(e.operator.token_type = "Bang" /\ evaluate(e.right).value.kind = "Boolean")

\* A Binary expression with an arithmetic or ordering operator whose
\* operand values are of types the operator does not take.
C12_BinaryMismatch(e) ==
    /\ HasOperands(e)
    /\ e.operator.token_type \in {"Plus"} \cup C9_Arithmetic \cup C9_Ordering
    /\ LET l == evaluate(e.left).value
           r == evaluate(e.right).value
       IN  /\ ~(l.kind = "Number" /\ r.kind = "Number")
           /\ ~(e.operator.token_type = "Plus" /\ l.kind = "String" /\ r.kind = "String")

\* C12: when Interpreter::evaluate has returned from a unary or binary
\* expression whose operand values are of incompatible types, it returned
\* no value and at least one diagnostic was written to the error stream.
C12_TypeErrorsSurface ==
    (pc = "evaluated" /\ (C12_UnaryMismatch(expr) \/ C12_BinaryMismatch(expr)))
    => (~returned.some /\ Len(stderr) >= 1)

\* The tree Parser::parse builds from the tokens ts followed by Eof.
ParseOf(ts) == expression(ParserNew(Append(ts, EofTok))).expr

C13_NotTrue == <<Tok("Bang", "!"), Tok("True", "true")>>
C13_NotNotTrue == <<Tok("Bang", "!"), Tok("Bang", "!"), Tok("True", "true")>>
C13_MinusMinus(x) == <<Tok("Minus", "-"), Tok("Minus", "-"), Token("Number", "x", x, 1)>>

\* C13: evaluating a Unary expression on an operand value gives the
\* negation for '-' on a Number, the inverse for '!' on a Boolean and no
\* value for any other pair; the parse of "!true" evaluates to false, of
\* "!!true" to true, and of "--x" to x for a Number x.
C13_UnaryEvaluation ==
    pc = "evaluated" =>
        /\ (expr.node = "Unary" /\ evaluate(expr.right).value # LNone) =>
             LET v == evaluate(expr.right).value
             IN  IF expr.operator.token_type = "Minus" /\ v.kind = "Number"
                 THEN returned = ReturnedValue(LNumber(0 - v.n, v.d))
                 ELSE IF expr.operator.token_type = "Bang" /\ v.kind = "Boolean"
                 THEN returned = ReturnedValue(LBoolean(~v.b))
                 ELSE ~returned.some
        /\ expr = ParseOf(C13_NotTrue) => returned = ReturnedValue(LBoolean(FALSE))
        /\ expr = ParseOf(C13_NotNotTrue) => returned = ReturnedValue(LBoolean(TRUE))
        /\ \A x \in {v \in EvalValues : v.kind = "Number"} :
             expr = ParseOf(C13_MinusMinus(x)) => returned = ReturnedValue(x)

C13_Witness ==
    /\ pc = "evaluated"
    /\ expr = ParseOf(C13_NotNotTrue)
    /\ expr = Unary(Tok("Bang", "!"), Unary(Tok("Bang", "!"), Literal(LBoolean(TRUE))))
    /\ returned = ReturnedValue(LBoolean(TRUE))

----------------------------------------------------------------------------
(* Claims about the tokens of the Scanner, checked under SpecScan *)

\* The character advance() hands the next scan step.
NextChar(s) == s.source[s.current + 1]

\* That character is immediately followed by c in the source.
FollowedBy(s, c) == s.current + 1 < Len(s.source) /\ s.source[s.current + 2] = c

C14_One(c) ==
    CASE c = "!" -> "Bang" [] c = "=" -> "Equal" [] c = "<" -> "Less" [] c = ">" -> "Greater"

C14_Two(c) ==
    CASE c = "!" -> "BangEqual" [] c = "=" -> "EqualEqual"
      [] c = "<" -> "LessEqual" [] c = ">" -> "GreaterEqual"

\* C14: a scan step at '!', '=', '<' or '>' appends exactly one token: when
\* the next character of the source is '=', the two-character token with
\* both characters as its lexeme, the cursor moved past both; otherwise the
\* one-character token, the cursor moved past that character.
C14_MaximalMunch ==
    [][ ( /\ pc = "scanning"
          /\ scanner.current < Len(scanner.source)
          /\ NextChar(scanner) \in {"!", "=", "<", ">"} )
        => LET c == NextChar(scanner)
           IN  IF FollowedBy(scanner, "=")
               THEN /\ scanner'.tokens =
                         Append(scanner.tokens,
                                Token(C14_Two(c), c \o "=", LNone, scanner.line))
                    /\ scanner'.current = scanner.current + 2
               ELSE /\ scanner'.tokens =
                         Append(scanner.tokens, Token(C14_One(c), c, LNone, scanner.line))
                    /\ scanner'.current = scanner.current + 1 ]_vars

\* The 1-based index of the first '"' after the character at the cursor, or
\* 0 when the source holds none.
ClosingQuote(s) ==
    LET later == {j \in (s.current + 2)..Len(s.source) : s.source[j] = "\""}
    IN  IF later = {} THEN 0 ELSE CHOOSE j \in later : \A k \in later : j <= k

\* The characters strictly between the quote at the cursor and index j.
Between(s, j) == SubSeq(s.source, s.current + 2, j - 1)

C15_Step ==
    ( /\ pc = "scanning"
      /\ scanner.current < Len(scanner.source)
      /\ NextChar(scanner) = "\""
      /\ ClosingQuote(scanner) # 0 )
    => LET j == ClosingQuote(scanner)
           line == scanner.line + CountOf("\n", Between(scanner, j))
       IN  /\ scanner'.tokens =
                Append(scanner.tokens,
                       Token("String",
                             "\"" \o Str(Between(scanner, j)) \o "\"",
                             LString(Str(Between(scanner, j))),
                             line))
           /\ scanner'.line = line

C15_Source == <<"\"", "h", "\n", "w", "\"">>

\* C15: a scan step at a '"' that has a closing '"' later in the source
\* appends exactly one String token, its lexeme the text with both quotes,
\* its literal the text strictly between them, its line the line of the
\* closing quote; the line counter grows by the number of newlines between
\* the quotes; scanning "h\nw" (quoted) ends with the String token and the
\* Eof token both at line 2.
C15_TerminatedString ==
    /\ [][C15_Step]_vars
    /\ [](pc = "scanned" /\ scanner.source = C15_Source =>
            scanner.tokens = << Token("String", "\"h\nw\"", LString("h\nw"), 2),
                                Token("Eof", "", LNone, 2) >>)

\* The characters after the quote at the cursor, up to the end of input.
Rest(s) == SubSeq(s.source, s.current + 2, Len(s.source))

C16_Step ==
    ( /\ pc = "scanning"
      /\ scanner.current < Len(scanner.source)
      /\ NextChar(scanner) = "\""
      /\ ClosingQuote(scanner) = 0 )
    => /\ scanner'.reporter =
            Append(scanner.reporter,
                   "[line " \o ToString(scanner.line + CountOf("\n", Rest(scanner)))
                     \o "] Error: Unterminated string.")
       /\ scanner'.tokens = scanner.tokens
       /\ is_at_end(scanner')
       /\ pc' = "scanning"

\* C16: a scan step at a '"' with no closing '"' before the end of input
\* records exactly one error, "Unterminated string." at the line reached at
\* the end of input, appends no token, keeps the tokens emitted before, and
\* leaves the scan at the end of input, where it appends the Eof token.
C16_UnterminatedString ==
    /\ [][C16_Step]_vars
    /\ [][(pc = "scanning" /\ is_at_end(scanner)) =>
            (pc' = "scanned"
             /\ scanner'.tokens = Append(scanner.tokens,
                                         Token("Eof", "", LNone, scanner.line)))]_vars

\* The index of the last character of the run of ASCII digits of src that
\* starts at index i (i - 1 when src[i] is no digit).
RECURSIVE DigitRunEnd(_, _)
DigitRunEnd(src, i) ==
    IF i <= Len(src) /\ src[i] \in Digits THEN DigitRunEnd(src, i + 1) ELSE i - 1

\* The index of the last character of the number literal that starts at
\* index i: the digits, and a '.' with the digits after it when at least one
\* digit follows the '.'.
NumberEnd(src, i) ==
    IF /\ DigitRunEnd(src, i) + 2 <= Len(src)
       /\ src[DigitRunEnd(src, i) + 1] = "."
       /\ src[DigitRunEnd(src, i) + 2] \in Digits
    THEN DigitRunEnd(src, DigitRunEnd(src, i) + 2)
    ELSE DigitRunEnd(src, i)

C17_NumberStep ==
    ( /\ pc = "scanning"
      /\ scanner.current < Len(scanner.source)
      /\ NextChar(scanner) \in Digits )
    => LET e == NumberEnd(scanner.source, scanner.current + 1)
           text == SubSeq(scanner.source, scanner.current + 1, e)
       IN  /\ Len(scanner'.tokens) = Len(scanner.tokens) + 1
           /\ SubSeq(scanner'.tokens, 1, Len(scanner.tokens)) = scanner.tokens
           /\ scanner'.tokens[Len(scanner'.tokens)].token_type = "Number"
           /\ scanner'.tokens[Len(scanner'.tokens)].lexeme = Str(text)
           /\ scanner'.tokens[Len(scanner'.tokens)].literal.kind = "Number"
           /\ scanner'.current = scanner.current + Len(text)

C17_DotStep ==
    ( /\ pc = "scanning"
      /\ scanner.current < Len(scanner.source)
      /\ NextChar(scanner) = "." )
    => /\ scanner'.tokens = Append(scanner.tokens, Token("Dot", ".", LNone, scanner.line))
       /\ scanner'.current = scanner.current + 1

C17_Lexemes(toks) == [i \in 1..Len(toks) |-> <<toks[i].token_type, toks[i].lexeme>>]

C17_TestSource == <<"1", "\n", "2", ".", "0", "\n", "0", "3", "\n", ".", "0">>

\* C17: a scan step at a digit appends exactly one Number token whose
\* lexeme is the maximal run of digits, with one '.' and the digits after
\* it when a digit follows that '.', and moves the cursor past exactly that
\* lexeme; a scan step at a '.' appends a Dot token; so "1." scans as
\* NUMBER DOT, ".1" as DOT NUMBER, "1.5.2" as NUMBER(1.5) DOT NUMBER(2), and
\* "1\n2.0\n03\n.0" as the numbers 1, 2.0, 03, a DOT and the number 0.
C17_NumberLiterals ==
    /\ [][C17_NumberStep /\ C17_DotStep]_vars
    /\ [](pc = "scanned" =>
            /\ scanner.source = <<"1", ".">> =>
                 C17_Lexemes(scanner.tokens) =
                    << <<"Number", "1">>, <<"Dot", ".">>, <<"Eof", "">> >>
            /\ scanner.source = <<".", "1">> =>
                 C17_Lexemes(scanner.tokens) =
                    << <<"Dot", ".">>, <<"Number", "1">>, <<"Eof", "">> >>
            /\ scanner.source = <<"1", ".", "5", ".", "2">> =>
                 C17_Lexemes(scanner.tokens) =
                    << <<"Number", "1.5">>, <<"Dot", ".">>, <<"Number", "2">>,
                       <<"Eof", "">> >>
            /\ scanner.source = C17_TestSource =>
                 /\ C17_Lexemes(scanner.tokens) =
                      << <<"Number", "1">>, <<"Number", "2.0">>, <<"Number", "03">>,
                         <<"Dot", ".">>, <<"Number", "0">>, <<"Eof", "">> >>
                 /\ scanner.tokens[3].literal = LNumber(3, 1))

----------------------------------------------------------------------------
(* Claims about the Reporter across operations, checked under SpecLox *)

IsPrefix(a, b) == Len(a) <= Len(b) /\ SubSeq(b, 1, Len(a)) = a

\* C18: in every step of scanning, Lox::new, Lox::run and Lox::evaluate the
\* errors of each Reporter are kept in place and in order: the errors of
\* the Scanner's and Lox's Reporter before the step are a prefix of those
\* after it, and so are those of a Parser's Reporter for as long as that
\* Parser lives (Lox::run and Lox::evaluate start with a new Parser); once
\* Lox::had_error is true it stays true; and the step in which
\* Lox::evaluate runs the Interpreter changes no Reporter.
C18_ReporterAppendOnly ==
    [][ /\ IsPrefix(scanner.reporter, scanner'.reporter)
        /\ IsPrefix(lox.reporter, lox'.reporter)
        /\ pc # "idle" => IsPrefix(parser.reporter, parser'.reporter)
        /\ Lox_had_error(lox) => Lox_had_error(lox')
        /\ (pc = "parsed" /\ call = "evaluate") =>
              /\ scanner'.reporter = scanner.reporter
              /\ lox'.reporter = lox.reporter
              /\ parser'.reporter = parser.reporter ]_vars

C18_Witness ==
    /\ pc = "idle"
    /\ call = "evaluate"
    /\ Len(scanner.reporter) = 2
    /\ lox.reporter = scanner.reporter
    /\ Lox_had_error(lox)
    /\ returned = NoReturn

----------------------------------------------------------------------------
(* Claims about the tokens Parser::parse consumes, checked under SpecParse *)

\* C19: when Parser::parse has returned and no error was recorded, the
\* cursor is on the Eof token: every token before it was consumed.
C19_ConsumesAllTokens ==
    (pc = "parsed" /\ ~Parser_had_error(parser)) =>
        Parser_peek(parser).token_type = "Eof"

====
